---- MODULE Spec2Model ----
(***************************************************************************)
(* State-machine model of the bridge UI component                          *)
(* (src/components/BridgeComponent.tsx; src/unnamed/part_000 is the        *)
(* earlier version of the same component).                                 *)
(*                                                                         *)
(* React state is modelled by one variable per useState cell.  Each async  *)
(* handler (connectWallet, performBridgeTransfer) is a process whose       *)
(* position is the await it is suspended on; one action resumes the        *)
(* handler from that await with an outcome chosen by the environment       *)
(* (resolve with a value, or reject) and runs the synchronous code up to   *)
(* the next await.  Strings that the code inspects character by character  *)
(* (addresses) are sequences of one-character strings.                     *)
(***************************************************************************)
EXTENDS Integers, Sequences, FiniteSets, TLC

VARIABLES
    sourceChain,          \* useState sourceChain
    targetChain,          \* useState targetChain
    amount,               \* useState amount (decimal string)
    destinationAddress,   \* useState destinationAddress (sequence of chars)
    wallet,               \* useState wallet (signer handle or NoSigner)
    walletAddress,        \* useState walletAddress (sequence of chars)
    status,               \* useState status
    statusMessage,        \* useState statusMessage (message tag, "" when empty)
    txHash,               \* useState txHash
    cpc,                  \* position of connectWallet
    attempt,              \* per invocation of performBridgeTransfer: its frame
    attemptNo,            \* number of performBridgeTransfer invocations so far
    walletChain,          \* the wallet extension's active chain id
    listeners,            \* chainChanged / accountsChanged handlers registered
    chainChangedPending   \* a chainChanged event emitted, not yet delivered

vars == << sourceChain, targetChain, amount, destinationAddress, wallet,
           walletAddress, status, statusMessage, txHash, cpc, attempt,
           attemptNo, walletChain, listeners, chainChangedPending >>

formFields == << sourceChain, targetChain, amount, destinationAddress >>

---------------------------------------------------------------------------
(* Bounds of the model *)

\* performBridgeTransfer invocations explored per behaviour
MaxAttempts == 2

---------------------------------------------------------------------------
(* Configuration constants of the component *)

ChainNames == {"Arbitrum Sepolia", "BSC Testnet", "Sepolia", "Solana"}

SUPPORTED_CHAINS ==
    [n \in ChainNames |->
       CASE n = "Arbitrum Sepolia" ->
              [chainId |-> 421614, wormholeChainId |-> 10003, name |-> n,
               nttManager |-> "0x2D42B901dAf957F3d1949a53c7Eb37a8111AEbB8",
               cctAddress |-> "0x3784Ce665CA1AE8f26ae96589b917f8081E72fe7",
               explorer |-> "https://sepolia.arbiscan.io",
               symbol |-> "ETH", isSolana |-> FALSE]
         [] n = "BSC Testnet" ->
              [chainId |-> 97, wormholeChainId |-> 4, name |-> n,
               nttManager |-> "0x8290988FaBBCFF19737aa72d79680e659207368e",
               cctAddress |-> "0x6B4d90B36Fd734863d8937140546251db069839b",
               explorer |-> "https://testnet.bscscan.com",
               symbol |-> "BNB", isSolana |-> FALSE]
         [] n = "Sepolia" ->
              [chainId |-> 11155111, wormholeChainId |-> 10002, name |-> n,
               nttManager |-> "0x388e36c3E48fDB2C7F90b522ee12dD4A55275B54",
               cctAddress |-> "0x971d048EF94DaD79427abdbc36BC2a2b2aED9687",
               explorer |-> "https://sepolia.etherscan.io",
               symbol |-> "ETH", isSolana |-> FALSE]
         [] n = "Solana" ->
              [chainId |-> 0, wormholeChainId |-> 1, name |-> n,
               nttManager |-> "NTtAGGyP6BjfxfCYbvi8ZVnGg2L8Dj68jm2DorciTBv",
               cctAddress |-> "FUDnkD5jC6T2YTw9zdTJ7VyP3koVy78xh7SpHMgYNqXz",
               explorer |-> "https://explorer.solana.com/?cluster=devnet",
               symbol |-> "SOL", isSolana |-> TRUE]]

WormholeMapNames ==
    {"Ethereum", "Solana", "BNB Smart Chain", "BSC Testnet", "Avalanche",
     "Polygon", "Arbitrum", "Arbitrum Sepolia", "Optimism", "Base",
     "Ethereum Sepolia", "Sepolia"}

WORMHOLE_CHAIN_ID_MAP ==
    [n \in WormholeMapNames |->
       CASE n = "Ethereum" -> 2
         [] n = "Solana" -> 1
         [] n = "BNB Smart Chain" -> 4
         [] n = "BSC Testnet" -> 4
         [] n = "Avalanche" -> 6
         [] n = "Polygon" -> 5
         [] n = "Arbitrum" -> 23
         [] n = "Arbitrum Sepolia" -> 10003
         [] n = "Optimism" -> 24
         [] n = "Base" -> 30
         [] n = "Ethereum Sepolia" -> 10002
         [] n = "Sepolia" -> 10002]

\* CROSS_CHAIN_CONSTANTS.FEE = "0.005" ether, counted in units of 10^15 wei
\* (parseEther("0.005") = 5 * 10^15 wei); native balances use the same unit.
FEE == 5
GAS_LIMIT == 900000
TX_RETRY_COUNT == 3

\* const transceiverInstructions = "0x01000100"
transceiverInstructions == "0x01000100"

---------------------------------------------------------------------------
(* Characters and strings *)

Digits == {"0", "1", "2", "3", "4", "5", "6", "7", "8", "9"}
LowerHex == {"a", "b", "c", "d", "e", "f"}
UpperHex == {"A", "B", "C", "D", "E", "F"}
HexDigits == Digits \cup LowerHex \cup UpperHex

\* the character class [1-9A-HJ-NP-Za-km-z]
Base58Chars ==
    (Digits \ {"0"})
    \cup {"A", "B", "C", "D", "E", "F", "G", "H", "J", "K", "L", "M", "N",
          "P", "Q", "R", "S", "T", "U", "V", "W", "X", "Y", "Z"}
    \cup {"a", "b", "c", "d", "e", "f", "g", "h", "i", "j", "k", "m", "n",
          "o", "p", "q", "r", "s", "t", "u", "v", "w", "x", "y", "z"}

Whitespace == {" "}

EmptyStr == << >>

\* the first n characters of the endless repetition of pat
Cycle(pat, n) == [i \in 1..n |-> pat[((i - 1) % Len(pat)) + 1]]

\* String.prototype.slice(from, to) with 0-based from, exclusive to
Slice(s, from, to) ==
    LET hi == IF to > Len(s) THEN Len(s) ELSE to
    IN  IF from >= hi THEN << >> ELSE SubSeq(s, from + 1, hi)

\* String.prototype.trim
RECURSIVE TrimLeft(_)
TrimLeft(s) ==
    IF s # << >> /\ Head(s) \in Whitespace THEN TrimLeft(Tail(s)) ELSE s

RECURSIVE TrimRight(_)
TrimRight(s) ==
    IF s # << >> /\ s[Len(s)] \in Whitespace
       THEN TrimRight(SubSeq(s, 1, Len(s) - 1))
       ELSE s

Trim(s) == TrimRight(TrimLeft(s))

ToLowerChar(c) ==
    CASE c = "A" -> "a" [] c = "B" -> "b" [] c = "C" -> "c"
      [] c = "D" -> "d" [] c = "E" -> "e" [] c = "F" -> "f"
      [] c = "X" -> "x"
      [] OTHER -> c

\* String.prototype.toLowerCase on the characters an address can hold
ToLowerCase(s) == [i \in 1..Len(s) |-> ToLowerChar(s[i])]

AllIn(s, set) == \A i \in 1..Len(s) : s[i] \in set

HasPrefix0x(s) == Len(s) >= 2 /\ s[1] = "0" /\ s[2] = "x"

\* address.replace(/^0x/, '')
Strip0x(s) == IF HasPrefix0x(s) THEN SubSeq(s, 3, Len(s)) ELSE s

---------------------------------------------------------------------------
(* Address validation and preparation *)

\* the account the wallet extension exposes, in checksum case as
\* signer.getAddress() returns it
AccountAddress ==
    << "0", "x", "c", "0", "f", "f", "e", "e", "2", "5", "4", "7", "2", "9",
       "2", "9", "6", "a", "4", "5", "a", "3", "8", "8", "5", "6", "3", "9",
       "A", "C", "7", "E", "1", "0", "F", "9", "d", "5", "4", "9", "7", "9" >>

\* mixed-case addresses whose EIP-55 checksum is correct (the checksum is a
\* keccak256 digest, tabulated here for the addresses the model uses)
ChecksummedAddresses == {AccountAddress}

\* /([A-F].*[a-f])|([a-f].*[A-F])/
MixedCase(s) ==
    /\ \E i \in 1..Len(s) : s[i] \in UpperHex
    /\ \E i \in 1..Len(s) : s[i] \in LowerHex

\* ethers.utils.isAddress: /^(0x)?[0-9a-fA-F]{40}$/ and, for a mixed-case
\* address, a correct checksum.  (The ICAP form /^XE[0-9]{2}.../ is matched
\* by none of the strings of this model.)
IsAddress(s) ==
    LET body == Strip0x(s)
        full == << "0", "x" >> \o body
    IN  /\ Len(body) = 40
        /\ AllIn(body, HexDigits)
        /\ (MixedCase(full) => full \in ChecksummedAddresses)

\* destinationAddress.match(/^[1-9A-HJ-NP-Za-km-z]{32,44}$/)
MatchesSolanaPattern(s) ==
    Len(s) >= 32 /\ Len(s) <= 44 /\ AllIn(s, Base58Chars)

\* destinationAddress.length < 32 || !destinationAddress.match(...)
\* variant: only the length test of the Solana address check
InvalidSolanaAddressLengthOnly(s) == Len(s) < 32

InvalidSolanaAddress(s) == Len(s) < 32 \/ ~MatchesSolanaPattern(s)

ZeroPad(n) == [i \in 1..n |-> "0"]

\* variant: the digits are kept in the letter case they were entered in
prepareRecipientAddressKeepingCase(address) ==
    << "0", "x" >> \o ZeroPad(24) \o Strip0x(address)

prepareRecipientAddress(address) ==
    << "0", "x" >> \o ZeroPad(24) \o ToLowerCase(Strip0x(address))

prepareSolanaAddress(solanaAddress) ==
    << "0", "x" >> \o ZeroPad(48) \o Slice(solanaAddress, 0, 16)

---------------------------------------------------------------------------
(* Values the user and the environment can supply *)

NoChain == ""

\* amount strings the user types, with their decimal value
AmountInputs == {"", "1"}
AmountValue(a) == CASE a = "1" -> 1 [] a = "2" -> 2

BlankAddress == << " ", " " >>
EvmAddress == << "0", "x" >> \o Cycle(<< "1", "a", "2", "b" >>, 40)
SolanaAddress == Cycle(<< "S", "o", "L", "9", "k", "W", "z" >>, 44)
AddressInputs == {EmptyStr, BlankAddress, EvmAddress, SolanaAddress}

\* the networks the user picks as source and as destination
SourceInputs == {NoChain, "Arbitrum Sepolia", "BSC Testnet"}
TargetInputs == {NoChain, "BSC Testnet", "Solana"}

\* chain ids the wallet extension can be on
WalletChains == {SUPPORTED_CHAINS[n].chainId : n \in SourceInputs \ {NoChain}}

\* values read from the chain
NativeBalances == {FEE - 1, FEE}
DecimalsValues == {1}
TokenReads == {0, 10}

RECURSIVE Pow10(_)
Pow10(d) == IF d = 0 THEN 1 ELSE 10 * Pow10(d - 1)

\* ethers.utils.parseUnits(amount, decimals) on the amounts of AmountInputs
parseUnits(a, decimals) == AmountValue(a) * Pow10(decimals)

---------------------------------------------------------------------------
(* Handles and frames *)

NoSigner == [origin |-> "none", n |-> 0]
\* provider.getSigner() in connectWallet
ConnectSigner == [origin |-> "connect", n |-> 0]
\* newProvider.getSigner() after the network switch of invocation a
SwitchSigner(a) == [origin |-> "switch", n |-> a]

NoHash == [kind |-> "none", n |-> 0]
ApproveHash(a) == [kind |-> "approve", n |-> a]
TransferHash(a) == [kind |-> "transfer", n |-> a]

Unread == 0 - 1

Attempts == 1..MaxAttempts

InFlightStatuses == {"preparing", "approving", "transferring", "confirming"}

\* the outcome of the await a handler was last resumed from
NoOutcome == [op |-> "none", ok |-> TRUE, value |-> 0]
Resolved(op, value) == [op |-> op, ok |-> TRUE, value |-> value]
\* value: the error's code where the code reads it, 0 otherwise
Rejected(op, code) == [op |-> op, ok |-> FALSE, value |-> code]

\* the frame of one performBridgeTransfer invocation: the React state its
\* closure captured, its local variables, the outcome of its last await and
\* the transactions it has asked the wallet to send
InitFrame ==
    [pc |-> "idle",
     wallet |-> NoSigner, walletAddress |-> EmptyStr,
     sourceChain |-> NoChain, targetChain |-> NoChain,
     amount |-> "", destinationAddress |-> EmptyStr,
     address |-> EmptyStr, ethBalance |-> Unread,
     amountWei |-> Unread, cctBalance |-> Unread,
     currentAllowance |-> Unread,
     bytes32Recipient |-> EmptyStr, destinationWormholeChainId |-> Unread,
     retries |-> Unread,
     last |-> NoOutcome, sent |-> << >>]

srcChainConfig(f) == SUPPORTED_CHAINS[f.sourceChain]
dstChainConfig(f) == SUPPORTED_CHAINS[f.targetChain]

\* the handler suspends on the call op
Await(f, op) == [f EXCEPT !.pc = op]

\* the handler asks the wallet to send a transaction through its wallet
\* handle and suspends on the request
Send(f, op, args) ==
    [f EXCEPT !.pc = op,
              !.sent = Append(@, [op |-> op, via |-> f.wallet, args |-> args])]

SentOf(f, op) == SelectSeq(f.sent, LAMBDA c : c.op = op)

\* the signer every call of the handler goes through: the wallet of its
\* closure (wallet.provider.getGasPrice(), new ethers.Contract(..., wallet))
CallSigner(f) == f.wallet

---------------------------------------------------------------------------
(* Rendering *)

\* variant: a pattern that disables the inputs in the "warning" status only
InputsDisabledInWarningOnly == status = "warning"

\* disabled={status !== "idle" && status !== "error" && status !== "success"}
InputsDisabled == status # "idle" /\ status # "error" /\ status # "success"

\* variant: a button whose disabled expression ignores the status
isTransferDisabledIgnoringStatus ==
    \/ sourceChain = NoChain
    \/ targetChain = NoChain
    \/ amount = ""
    \/ wallet = NoSigner

isTransferDisabled ==
    \/ sourceChain = NoChain
    \/ targetChain = NoChain
    \/ amount = ""
    \/ wallet = NoSigner
    \/ status \in InFlightStatuses

\* {!wallet ? <connect button> : <form, status panel, transfer button>}
FormRendered == wallet # NoSigner

\* renderTransactionStatus returns null while status is "idle"
StatusPanelRendered == FormRendered /\ status # "idle"

\* {txHash && <a href={`${srcChainConfig?.explorer}/tx/${txHash}`} ...>}
ExplorerLinkRendered == StatusPanelRendered /\ txHash # NoHash

\* the explorer part of the link's href; srcChainConfig is the descriptor of
\* the source network selected now, null when none is selected
ExplorerLinkBase ==
    IF sourceChain = NoChain
       THEN "undefined"
       ELSE SUPPORTED_CHAINS[sourceChain].explorer

---------------------------------------------------------------------------
(* Initial state: the component as constructed by useState *)

Init ==
    /\ sourceChain = NoChain
    /\ targetChain = NoChain
    /\ amount = ""
    /\ destinationAddress = EmptyStr
    /\ wallet = NoSigner
    /\ walletAddress = EmptyStr
    /\ status = "idle"
    /\ statusMessage = ""
    /\ txHash = NoHash
    /\ cpc = "idle"
    /\ attempt = [a \in Attempts |-> InitFrame]
    /\ attemptNo = 0
    /\ walletChain \in WalletChains
    /\ listeners = FALSE
    /\ chainChangedPending = FALSE

\* No handler is inside its last synchronous segment: the steps that end a
\* handler ("ended", "failed", "connected") are followed at once by its
\* return, so no other event is handled in between.
NoneReturning ==
    /\ cpc \notin {"failed", "connected"}
    /\ \A a \in Attempts : attempt[a].pc # "ended"

---------------------------------------------------------------------------
(* Form input *)

SetSourceChain(v) ==
    /\ NoneReturning /\ FormRendered /\ ~InputsDisabled
    /\ v # sourceChain
    /\ sourceChain' = v
    /\ UNCHANGED << targetChain, amount, destinationAddress, wallet,
                    walletAddress, status, statusMessage, txHash, cpc,
                    attempt, attemptNo, walletChain, listeners,
                    chainChangedPending >>

\* <option ... disabled={name === sourceChain}>
SetTargetChain(v) ==
    /\ NoneReturning /\ FormRendered /\ ~InputsDisabled
    /\ v # targetChain
    /\ (v = NoChain \/ v # sourceChain)
    /\ targetChain' = v
    /\ UNCHANGED << sourceChain, amount, destinationAddress, wallet,
                    walletAddress, status, statusMessage, txHash, cpc,
                    attempt, attemptNo, walletChain, listeners,
                    chainChangedPending >>

SetAmount(v) ==
    /\ NoneReturning /\ FormRendered /\ ~InputsDisabled
    /\ v # amount
    /\ amount' = v
    /\ UNCHANGED << sourceChain, targetChain, destinationAddress, wallet,
                    walletAddress, status, statusMessage, txHash, cpc,
                    attempt, attemptNo, walletChain, listeners,
                    chainChangedPending >>

SetDestinationAddress(v) ==
    /\ NoneReturning /\ FormRendered /\ ~InputsDisabled
    /\ v # destinationAddress
    /\ destinationAddress' = v
    /\ UNCHANGED << sourceChain, targetChain, amount, wallet,
                    walletAddress, status, statusMessage, txHash, cpc,
                    attempt, attemptNo, walletChain, listeners,
                    chainChangedPending >>

---------------------------------------------------------------------------
(* connectWallet *)

\* click on the connect button: await provider.send('eth_requestAccounts')
ConnectWallet ==
    /\ NoneReturning /\ ~FormRendered
    /\ cpc = "idle"
    /\ cpc' = "requestAccounts"
    /\ UNCHANGED << sourceChain, targetChain, amount, destinationAddress,
                    wallet, walletAddress, status, statusMessage, txHash,
                    attempt, attemptNo, walletChain, listeners,
                    chainChangedPending >>

\* catch (error) { setStatusMessage('...') }
ConnectCatch ==
    /\ cpc' = "failed"
    /\ statusMessage' = "connectFailed"

ConnectRequestAccounts ==
    /\ NoneReturning
    /\ cpc = "requestAccounts"
    /\ \/ /\ wallet' = ConnectSigner
          /\ cpc' = "getAddress"
          /\ UNCHANGED statusMessage
       \/ /\ ConnectCatch
          /\ UNCHANGED wallet
    /\ UNCHANGED << sourceChain, targetChain, amount, destinationAddress,
                    walletAddress, status, txHash, attempt, attemptNo,
                    walletChain, listeners, chainChangedPending >>

ConnectGetAddress ==
    /\ NoneReturning
    /\ cpc = "getAddress"
    /\ \/ /\ walletAddress' = AccountAddress
          /\ cpc' = "getNetwork"
          /\ UNCHANGED statusMessage
       \/ /\ ConnectCatch
          /\ UNCHANGED walletAddress
    /\ UNCHANGED << sourceChain, targetChain, amount, destinationAddress,
                    wallet, status, txHash, attempt, attemptNo, walletChain,
                    listeners, chainChangedPending >>

\* after getNetwork the two window.ethereum.on(...) listeners are registered
ConnectGetNetwork ==
    /\ NoneReturning
    /\ cpc = "getNetwork"
    /\ \/ /\ listeners' = TRUE
          /\ cpc' = "connected"
          /\ UNCHANGED statusMessage
       \/ /\ ConnectCatch
          /\ UNCHANGED listeners
    /\ UNCHANGED << sourceChain, targetChain, amount, destinationAddress,
                    wallet, walletAddress, status, txHash, attempt,
                    attemptNo, walletChain, chainChangedPending >>

ConnectReturn ==
    /\ cpc \in {"failed", "connected"}
    /\ cpc' = "idle"
    /\ UNCHANGED << sourceChain, targetChain, amount, destinationAddress,
                    wallet, walletAddress, status, statusMessage, txHash,
                    attempt, attemptNo, walletChain, listeners,
                    chainChangedPending >>

---------------------------------------------------------------------------
(* Wallet events *)

\* window.location.reload(): the component is constructed anew and every
\* running handler of the old page is gone; the wallet extension keeps its
\* chain
Reloaded ==
    /\ sourceChain' = NoChain
    /\ targetChain' = NoChain
    /\ amount' = ""
    /\ destinationAddress' = EmptyStr
    /\ wallet' = NoSigner
    /\ walletAddress' = EmptyStr
    /\ status' = "idle"
    /\ statusMessage' = ""
    /\ txHash' = NoHash
    /\ cpc' = "idle"
    /\ attempt' = [a \in Attempts |-> InitFrame]
    /\ listeners' = FALSE
    /\ chainChangedPending' = FALSE

\* the user picks another network in the wallet extension; the wallet emits
\* chainChanged to the listeners registered at that moment
UserSwitchesNetwork(c) ==
    /\ NoneReturning
    /\ c # walletChain
    /\ ~chainChangedPending
    /\ walletChain' = c
    /\ chainChangedPending' = listeners
    /\ UNCHANGED << sourceChain, targetChain, amount, destinationAddress,
                    wallet, walletAddress, status, statusMessage, txHash,
                    cpc, attempt, attemptNo, listeners >>

\* window.ethereum.on('chainChanged', ...) => window.location.reload()
ChainChanged ==
    /\ NoneReturning
    /\ chainChangedPending
    /\ Reloaded
    /\ UNCHANGED << attemptNo, walletChain >>

\* window.ethereum.on('accountsChanged', ...)
AccountsChanged(disconnected) ==
    /\ NoneReturning
    /\ listeners
    /\ IF disconnected
          THEN /\ wallet' = NoSigner
               /\ walletAddress' = EmptyStr
               /\ UNCHANGED << sourceChain, targetChain, amount,
                               destinationAddress, status, statusMessage,
                               txHash, cpc, attempt, listeners,
                               chainChangedPending >>
          ELSE Reloaded
    /\ UNCHANGED << attemptNo, walletChain >>

---------------------------------------------------------------------------
(* performBridgeTransfer *)

SetFrame(a, f) == attempt' = [attempt EXCEPT ![a] = f]

\* variant: a catch that sets the message and leaves the status as it is
CatchKeepingStatus(a, f, message) ==
    /\ SetFrame(a, [f EXCEPT !.pc = "ended"])
    /\ status' = status
    /\ statusMessage' = message

\* the outer catch: setStatus("error"); setStatusMessage(`错误: ...`)
Catch(a, f, message) ==
    /\ SetFrame(a, [f EXCEPT !.pc = "ended"])
    /\ status' = "error"
    /\ statusMessage' = message

\* variant: the refund goes to the sending wallet's address
TransferArgsRefundingSender(f) ==
    [amount |-> f.amountWei,
     recipientChain |-> f.destinationWormholeChainId,
     recipient |-> f.bytes32Recipient,
     refundAddress |-> prepareRecipientAddress(f.address),
     shouldQueue |-> FALSE,
     transceiverInstructions |-> transceiverInstructions,
     value |-> FEE,
     gasLimit |-> GAS_LIMIT]

\* the arguments of nttManagerContract.transfer(...)
TransferArgs(f) ==
    [amount |-> f.amountWei,
     recipientChain |-> f.destinationWormholeChainId,
     recipient |-> f.bytes32Recipient,
     refundAddress |-> f.bytes32Recipient,
     shouldQueue |-> FALSE,
     transceiverInstructions |-> transceiverInstructions,
     value |-> FEE,
     gasLimit |-> GAS_LIMIT]

\* WORMHOLE_CHAIN_ID_MAP[dstChainConfig.name] || dstChainConfig.wormholeChainId
DestinationWormholeChainId(f) ==
    LET name == dstChainConfig(f).name
    IN  IF name \in WormholeMapNames /\ WORMHOLE_CHAIN_ID_MAP[name] # 0
           THEN WORMHOLE_CHAIN_ID_MAP[name]
           ELSE dstChainConfig(f).wormholeChainId

\* variant: lte instead of lt
NeedsApprovalWhenEqual(currentAllowance, amountWei) ==
    currentAllowance <= amountWei

\* currentAllowance.lt(amountWei)
NeedsApproval(currentAllowance, amountWei) == currentAllowance < amountWei

\* variant: a fee threshold one unit lower
NativeBalanceTooLowByTwo(ethBalance) == ethBalance < FEE - 1

\* ethBalance.lt(requiredEth)
NativeBalanceTooLow(ethBalance) == ethBalance < FEE

\* variant: the operands of the comparison swapped
TokenBalanceTooLowSwapped(cctBalance, amountWei) == amountWei < cctBalance

\* cctBalance.lt(amountWei)
TokenBalanceTooLow(cctBalance, amountWei) == cctBalance < amountWei

\* variant: any receipt counts as success
ReceiptPresent(receiptStatus) == receiptStatus \in {0, 1}

\* receipt.status === 1
ReceiptSucceeded(receiptStatus) == receiptStatus = 1

\* variant: the recipient is always the wallet's own address
RecipientAddressOfWallet(entered, address) == address

\* const recipientAddress = destinationAddress.trim() || address
RecipientAddress(entered, address) ==
    IF Trim(entered) # EmptyStr THEN Trim(entered) ELSE address

\* variant: one retry more than configured
ShouldRetryAtZero(retries) == retries >= 0

\* variant: the last retry is not taken
ShouldRetryAboveOne(retries) == retries > 1

\* retryOperation: if (retries > 0)
ShouldRetry(retries) == retries > 0

\* if (!sourceChain || !targetChain || !amount || !wallet ||
\*     !srcChainConfig || !dstChainConfig)
\* (the two descriptors are those of the selected networks and are null
\* exactly when no network is selected)
MissingInput ==
    \/ sourceChain = NoChain \/ targetChain = NoChain
    \/ amount = "" \/ wallet = NoSigner

\* variant: the early return also reports an error and clears the hash
EarlyReturnAsError ==
    /\ statusMessage' = "selectPrompt"
    /\ status' = "error"
    /\ txHash' = NoHash
    /\ UNCHANGED << attempt, attemptNo >>

\* setStatusMessage("..."); return
EarlyReturn ==
    /\ statusMessage' = "selectPrompt"
    /\ UNCHANGED << status, txHash, attempt, attemptNo >>

\* performBridgeTransfer is invoked: its code up to the first await
InvokePerformBridgeTransfer ==
    /\ attemptNo < MaxAttempts
    /\ LET a == attemptNo + 1
           f == [InitFrame EXCEPT
                   !.wallet = wallet, !.walletAddress = walletAddress,
                   !.sourceChain = sourceChain, !.targetChain = targetChain,
                   !.amount = amount,
                   !.destinationAddress = destinationAddress]
       IN  IF MissingInput
              THEN EarlyReturn
              ELSE /\ attemptNo' = a
                   /\ status' = "preparing"
                   /\ statusMessage' = "preparing"
                   /\ txHash' = NoHash
                   /\ SetFrame(a, Await(f, "getNetwork"))
    /\ UNCHANGED << sourceChain, targetChain, amount, destinationAddress,
                    wallet, walletAddress, cpc, walletChain, listeners,
                    chainChangedPending >>

\* click on the transfer button
PerformBridgeTransfer ==
    /\ NoneReturning /\ FormRendered /\ ~isTransferDisabled
    /\ InvokePerformBridgeTransfer

\* await wallet.provider.getNetwork()
GetNetwork(a) ==
    LET f == attempt[a]
        g == [f EXCEPT !.last = Resolved("getNetwork", walletChain)]
    IN  /\ NoneReturning
        /\ f.pc = "getNetwork"
        /\ \/ IF walletChain # srcChainConfig(f).chainId
                 THEN /\ SetFrame(a, Await(g, "switchChain"))
                      /\ statusMessage' = "switching"
                      /\ UNCHANGED status
                 ELSE /\ SetFrame(a, Await(g, "getGasPrice"))
                      /\ UNCHANGED << status, statusMessage >>
           \/ Catch(a, [f EXCEPT !.last = Rejected("getNetwork", 0)],
                    "externalError")
        /\ UNCHANGED << sourceChain, targetChain, amount, destinationAddress,
                        wallet, walletAddress, txHash, cpc, attemptNo,
                        walletChain, listeners, chainChangedPending >>

\* switchNetwork has returned with the wallet on chain:
\* setWallet(newSigner); await wallet.provider.getGasPrice()
AfterSwitchNetwork(a, f, op, chain) ==
    /\ walletChain' = chain
    /\ chainChangedPending' =
          (chainChangedPending \/ (listeners /\ chain # walletChain))
    /\ wallet' = SwitchSigner(a)
    /\ SetFrame(a, Await([f EXCEPT !.last = Resolved(op, chain)],
                         "getGasPrice"))
    /\ UNCHANGED << status, statusMessage >>

\* the error codes a rejected switch request carries: 4902 (the network is
\* unknown to the wallet) and 4001 (the user rejected the request)
SwitchErrorCodes == {4902, 4001}

\* variant: the add request follows every failed switch
IsUnrecognizedChainOrAnyError(code) == code \in SwitchErrorCodes

\* switchNetwork: if (error.code === 4902)
IsUnrecognizedChain(code) == code = 4902

\* switchNetwork: await window.ethereum.request(wallet_switchEthereumChain)
SwitchChain(a) ==
    LET f == attempt[a]
    IN  /\ NoneReturning
        /\ f.pc = "switchChain"
        /\ \/ AfterSwitchNetwork(a, f, "switchChain", srcChainConfig(f).chainId)
           \/ \E code \in SwitchErrorCodes :
                 LET g == [f EXCEPT !.last = Rejected("switchChain", code)]
                 IN  /\ IF IsUnrecognizedChain(code)
                           THEN \* the network is unknown to the wallet
                                /\ SetFrame(a, Await(g, "addChain"))
                                /\ UNCHANGED << status, statusMessage >>
                           ELSE \* throw error
                                Catch(a, g, "externalError")
                     /\ UNCHANGED << wallet, walletChain, chainChangedPending >>
        /\ UNCHANGED << sourceChain, targetChain, amount, destinationAddress,
                        walletAddress, txHash, cpc, attemptNo, listeners >>

\* switchNetwork: await window.ethereum.request(wallet_addEthereumChain).
\* The request resolves once the network is added; the wallet then offers to
\* switch to it, and the user may decline.
AddChain(a) ==
    LET f == attempt[a]
    IN  /\ NoneReturning
        /\ f.pc = "addChain"
        /\ \/ \E chain \in {walletChain, srcChainConfig(f).chainId} :
                 AfterSwitchNetwork(a, f, "addChain", chain)
           \/ /\ Catch(a, [f EXCEPT !.last = Rejected("addChain", 0)],
                       "cannotAddNetwork")
              /\ UNCHANGED << wallet, walletChain, chainChangedPending >>
        /\ UNCHANGED << sourceChain, targetChain, amount, destinationAddress,
                        walletAddress, txHash, cpc, attemptNo, listeners >>

\* await wallet.provider.getGasPrice();
\* const address = walletAddress || await wallet.getAddress()
GetGasPrice(a) ==
    LET f == attempt[a]
        g == [f EXCEPT !.last = Resolved("getGasPrice", 0)]
    IN  /\ NoneReturning
        /\ f.pc = "getGasPrice"
        /\ \/ /\ IF f.walletAddress # EmptyStr
                    THEN SetFrame(a, Await([g EXCEPT !.address = f.walletAddress],
                                           "getBalance"))
                    ELSE SetFrame(a, Await(g, "getAddress"))
              /\ UNCHANGED << status, statusMessage >>
           \/ Catch(a, [f EXCEPT !.last = Rejected("getGasPrice", 0)],
                    "externalError")
        /\ UNCHANGED << sourceChain, targetChain, amount, destinationAddress,
                        wallet, walletAddress, txHash, cpc, attemptNo,
                        walletChain, listeners, chainChangedPending >>

\* await wallet.getAddress(); if (!walletAddress) setWalletAddress(address)
GetAddress(a) ==
    LET f == attempt[a]
        g == [f EXCEPT !.last = Resolved("getAddress", 0)]
    IN  /\ NoneReturning
        /\ f.pc = "getAddress"
        /\ \/ /\ SetFrame(a, Await([g EXCEPT !.address = AccountAddress],
                                   "getBalance"))
              /\ walletAddress' = AccountAddress
              /\ UNCHANGED << status, statusMessage >>
           \/ /\ Catch(a, [f EXCEPT !.last = Rejected("getAddress", 0)],
                       "externalError")
              /\ UNCHANGED walletAddress
        /\ UNCHANGED << sourceChain, targetChain, amount, destinationAddress,
                        wallet, txHash, cpc, attemptNo, walletChain,
                        listeners, chainChangedPending >>

\* await wallet.provider.getBalance(address)
GetBalance(a) ==
    LET f == attempt[a]
    IN  /\ NoneReturning
        /\ f.pc = "getBalance"
        /\ \/ \E ethBalance \in NativeBalances :
                 LET g == [f EXCEPT !.ethBalance = ethBalance,
                                    !.last = Resolved("getBalance", ethBalance)]
                 IN  IF NativeBalanceTooLow(ethBalance)
                        THEN Catch(a, g, "nativeBalanceTooLow")
                        ELSE /\ SetFrame(a, Await(g, "getCode"))
                             /\ UNCHANGED << status, statusMessage >>
           \/ Catch(a, [f EXCEPT !.last = Rejected("getBalance", 0)],
                    "externalError")
        /\ UNCHANGED << sourceChain, targetChain, amount, destinationAddress,
                        wallet, walletAddress, txHash, cpc, attemptNo,
                        walletChain, listeners, chainChangedPending >>

\* await wallet.provider.getCode(srcChainConfig.nttManager);
\* codeLength: the length of the returned hex string ("0x" when no contract)
GetCode(a) ==
    LET f == attempt[a]
    IN  /\ NoneReturning
        /\ f.pc = "getCode"
        /\ \/ \E codeLength \in {2, 4} :
                 LET g == [f EXCEPT !.last = Resolved("getCode", codeLength)]
                 IN  IF codeLength <= 2
                        THEN Catch(a, g, "invalidNttManager")
                        ELSE /\ SetFrame(a, Await(g, "initialized"))
                             /\ UNCHANGED << status, statusMessage >>
           \/ Catch(a, [f EXCEPT !.last = Rejected("getCode", 0)],
                    "externalError")
        /\ UNCHANGED << sourceChain, targetChain, amount, destinationAddress,
                        wallet, walletAddress, txHash, cpc, attemptNo,
                        walletChain, listeners, chainChangedPending >>

\* try { const initialized = await nttManager.initialized();
\*       if (!initialized) throw new Error(...) }
\* catch (error) { console.warn(...) }
\* const decimals = await cctContract.decimals()
\* (value 1: initialized() returned true, 0: it returned false)
Initialized(a) ==
    LET f == attempt[a]
    IN  /\ NoneReturning
        /\ f.pc = "initialized"
        /\ \E outcome \in {Resolved("initialized", 1),
                           Resolved("initialized", 0),
                           Rejected("initialized", 0)} :
              SetFrame(a, Await([f EXCEPT !.last = outcome], "decimals"))
        /\ UNCHANGED << sourceChain, targetChain, amount, destinationAddress,
                        wallet, walletAddress, status, statusMessage, txHash,
                        cpc, attemptNo, walletChain, listeners,
                        chainChangedPending >>

\* await cctContract.decimals(); amountWei = parseUnits(amount, decimals)
Decimals(a) ==
    LET f == attempt[a]
    IN  /\ NoneReturning
        /\ f.pc = "decimals"
        /\ \/ /\ \E decimals \in DecimalsValues :
                    SetFrame(a, Await([f EXCEPT
                                         !.amountWei = parseUnits(f.amount, decimals),
                                         !.last = Resolved("decimals", decimals)],
                                      "balanceOf"))
              /\ UNCHANGED << status, statusMessage >>
           \/ Catch(a, [f EXCEPT !.last = Rejected("decimals", 0)],
                    "externalError")
        /\ UNCHANGED << sourceChain, targetChain, amount, destinationAddress,
                        wallet, walletAddress, txHash, cpc, attemptNo,
                        walletChain, listeners, chainChangedPending >>

\* await cctContract.balanceOf(address)
BalanceOf(a) ==
    LET f == attempt[a]
    IN  /\ NoneReturning
        /\ f.pc = "balanceOf"
        /\ \/ \E cctBalance \in TokenReads :
                 LET g == [f EXCEPT !.cctBalance = cctBalance,
                                    !.last = Resolved("balanceOf", cctBalance)]
                 IN  IF TokenBalanceTooLow(cctBalance, f.amountWei)
                        THEN Catch(a, g, "tokenBalanceTooLow")
                        ELSE /\ SetFrame(a, Await(g, "allowance"))
                             /\ UNCHANGED << status, statusMessage >>
           \/ Catch(a, [f EXCEPT !.last = Rejected("balanceOf", 0)],
                    "externalError")
        /\ UNCHANGED << sourceChain, targetChain, amount, destinationAddress,
                        wallet, walletAddress, txHash, cpc, attemptNo,
                        walletChain, listeners, chainChangedPending >>

\* retryOperation(operation, retries): await operation()
RetryOperation(f, retries) ==
    Send([f EXCEPT !.retries = retries], "transfer", TransferArgs(f))

\* From "let bytes32Recipient" to the first await of retryOperation: the
\* recipient is validated and prepared, then the transfer is submitted.
PrepareAndSubmit(a, f) ==
    LET trimmed == Trim(f.destinationAddress)
        recipientAddress == RecipientAddress(f.destinationAddress, f.address)
        Submit(bytes32Recipient) ==
            LET g == [f EXCEPT
                        !.bytes32Recipient = bytes32Recipient,
                        !.destinationWormholeChainId = DestinationWormholeChainId(f)]
            IN  /\ SetFrame(a, RetryOperation(g, TX_RETRY_COUNT))
                /\ status' = "transferring"
                /\ statusMessage' = "transferring"
        Stop(st, message) ==
            /\ SetFrame(a, [f EXCEPT !.pc = "ended"])
            /\ status' = st
            /\ statusMessage' = message
    IN  IF dstChainConfig(f).isSolana
           THEN IF trimmed = EmptyStr
                   THEN Stop("warning", "solanaAddressRequired")
                   ELSE IF InvalidSolanaAddress(f.destinationAddress)
                           THEN Stop("error", "invalidSolanaAddress")
                           ELSE Submit(prepareSolanaAddress(f.destinationAddress))
           ELSE IF trimmed # EmptyStr /\ ~IsAddress(f.destinationAddress)
                   THEN Stop("error", "invalidEthAddress")
                   ELSE Submit(prepareRecipientAddress(recipientAddress))

\* await cctContract.allowance(address, srcChainConfig.nttManager)
Allowance(a) ==
    LET f == attempt[a]
    IN  /\ NoneReturning
        /\ f.pc = "allowance"
        /\ \/ \E currentAllowance \in TokenReads :
                 LET g == [f EXCEPT !.currentAllowance = currentAllowance,
                                    !.last = Resolved("allowance", currentAllowance)]
                 IN  IF NeedsApproval(currentAllowance, f.amountWei)
                        THEN /\ SetFrame(a, Send(g, "approve",
                                                 [spender |-> srcChainConfig(f).nttManager,
                                                  amount |-> f.amountWei]))
                             /\ status' = "approving"
                             /\ statusMessage' = "approving"
                        ELSE PrepareAndSubmit(a, g)
           \/ Catch(a, [f EXCEPT !.last = Rejected("allowance", 0)],
                    "externalError")
        /\ UNCHANGED << sourceChain, targetChain, amount, destinationAddress,
                        wallet, walletAddress, txHash, cpc, attemptNo,
                        walletChain, listeners, chainChangedPending >>

\* variant: the transfer is prepared and submitted as soon as the approve is
\* sent, without awaiting approveTx.wait()
ApproveNotAwaitingConfirmation(a) ==
    LET f == attempt[a]
    IN  /\ NoneReturning
        /\ f.pc = "approve"
        /\ \/ /\ PrepareAndSubmit(a, [f EXCEPT !.last = Resolved("approve", 0)])
              /\ txHash' = ApproveHash(a)
           \/ /\ Catch(a, [f EXCEPT !.last = Rejected("approve", 0)],
                       "externalError")
              /\ UNCHANGED txHash
        /\ UNCHANGED << sourceChain, targetChain, amount, destinationAddress,
                        wallet, walletAddress, cpc, attemptNo, walletChain,
                        listeners, chainChangedPending >>

\* await cctContract.approve(...); setTxHash(approveTx.hash)
Approve(a) ==
    LET f == attempt[a]
    IN  /\ NoneReturning
        /\ f.pc = "approve"
        /\ \/ /\ SetFrame(a, Await([f EXCEPT !.last = Resolved("approve", 0)],
                                   "approveWait"))
              /\ txHash' = ApproveHash(a)
              /\ statusMessage' = "approveSent"
              /\ UNCHANGED status
           \/ /\ Catch(a, [f EXCEPT !.last = Rejected("approve", 0)],
                       "externalError")
              /\ UNCHANGED txHash
        /\ UNCHANGED << sourceChain, targetChain, amount, destinationAddress,
                        wallet, walletAddress, cpc, attemptNo, walletChain,
                        listeners, chainChangedPending >>

\* await approveTx.wait()
ApproveWait(a) ==
    LET f == attempt[a]
    IN  /\ NoneReturning
        /\ f.pc = "approveWait"
        /\ \/ PrepareAndSubmit(a, [f EXCEPT !.last = Resolved("approveWait", 0)])
           \/ Catch(a, [f EXCEPT !.last = Rejected("approveWait", 0)],
                    "externalError")
        /\ UNCHANGED << sourceChain, targetChain, amount, destinationAddress,
                        wallet, walletAddress, txHash, cpc, attemptNo,
                        walletChain, listeners, chainChangedPending >>

\* variant: the hash of the transfer transaction is not recorded
TransferKeepingHash(a) ==
    LET f == attempt[a]
        g == [f EXCEPT !.last = Rejected("transfer", 0)]
    IN  /\ NoneReturning
        /\ f.pc = "transfer"
        /\ \/ /\ SetFrame(a, Await([f EXCEPT !.last = Resolved("transfer", 0)],
                                   "transferWait"))
              /\ status' = "confirming"
              /\ statusMessage' = "confirming"
           \/ /\ IF ShouldRetry(f.retries)
                    THEN /\ SetFrame(a, Await(g, "retryDelay"))
                         /\ UNCHANGED << status, statusMessage >>
                    ELSE Catch(a, g, "externalError")
        /\ UNCHANGED << sourceChain, targetChain, amount, destinationAddress,
                        wallet, walletAddress, txHash, cpc, attemptNo,
                        walletChain, listeners, chainChangedPending >>

\* retryOperation: the awaited operation() settles
Transfer(a) ==
    LET f == attempt[a]
        g == [f EXCEPT !.last = Rejected("transfer", 0)]
    IN  /\ NoneReturning
        /\ f.pc = "transfer"
        /\ \/ \* resolved: setTxHash; setStatus("confirming"); await transferTx.wait()
              /\ SetFrame(a, Await([f EXCEPT !.last = Resolved("transfer", 0)],
                                   "transferWait"))
              /\ txHash' = TransferHash(a)
              /\ status' = "confirming"
              /\ statusMessage' = "confirming"
           \/ \* rejected
              /\ IF ShouldRetry(f.retries)
                    THEN /\ SetFrame(a, Await(g, "retryDelay"))
                         /\ UNCHANGED << status, statusMessage >>
                    ELSE Catch(a, g, "externalError")
              /\ UNCHANGED txHash
        /\ UNCHANGED << sourceChain, targetChain, amount, destinationAddress,
                        wallet, walletAddress, cpc, attemptNo, walletChain,
                        listeners, chainChangedPending >>

\* retryOperation: the 2 s timer fires; return retryOperation(operation, retries - 1)
RetryDelay(a) ==
    LET f == attempt[a]
    IN  /\ NoneReturning
        /\ f.pc = "retryDelay"
        /\ SetFrame(a, RetryOperation(f, f.retries - 1))
        /\ UNCHANGED << sourceChain, targetChain, amount, destinationAddress,
                        wallet, walletAddress, status, statusMessage, txHash,
                        cpc, attemptNo, walletChain, listeners,
                        chainChangedPending >>

\* variant: a receipt with a status other than 1 sets nothing
TransferWaitIgnoringRevert(a) ==
    LET f == attempt[a]
    IN  /\ NoneReturning
        /\ f.pc = "transferWait"
        /\ \/ \E receiptStatus \in {0, 1} :
                 /\ SetFrame(a, [f EXCEPT !.pc = "ended",
                                          !.last = Resolved("transferWait", receiptStatus)])
                 /\ IF ReceiptSucceeded(receiptStatus)
                       THEN status' = "success" /\ statusMessage' = "success"
                       ELSE UNCHANGED << status, statusMessage >>
           \/ Catch(a, [f EXCEPT !.last = Rejected("transferWait", 0)],
                    "externalError")
        /\ UNCHANGED << sourceChain, targetChain, amount, destinationAddress,
                        wallet, walletAddress, txHash, cpc, attemptNo,
                        walletChain, listeners, chainChangedPending >>

\* await transferTx.wait(); if (receipt.status === 1) ... else ...
TransferWait(a) ==
    LET f == attempt[a]
    IN  /\ NoneReturning
        /\ f.pc = "transferWait"
        /\ \/ \E receiptStatus \in {0, 1} :
                 /\ SetFrame(a, [f EXCEPT !.pc = "ended",
                                          !.last = Resolved("transferWait", receiptStatus)])
                 /\ IF ReceiptSucceeded(receiptStatus)
                       THEN status' = "success" /\ statusMessage' = "success"
                       ELSE status' = "error" /\ statusMessage' = "transferFailed"
           \/ Catch(a, [f EXCEPT !.last = Rejected("transferWait", 0)],
                    "externalError")
        /\ UNCHANGED << sourceChain, targetChain, amount, destinationAddress,
                        wallet, walletAddress, txHash, cpc, attemptNo,
                        walletChain, listeners, chainChangedPending >>

\* performBridgeTransfer returns: its frame is gone
Return(a) ==
    /\ attempt[a].pc = "ended"
    /\ SetFrame(a, InitFrame)
    /\ UNCHANGED << sourceChain, targetChain, amount, destinationAddress,
                    wallet, walletAddress, status, statusMessage, txHash,
                    cpc, attemptNo, walletChain, listeners,
                    chainChangedPending >>

---------------------------------------------------------------------------

Next ==
    \/ \E v \in SourceInputs : SetSourceChain(v)
    \/ \E v \in TargetInputs : SetTargetChain(v)
    \/ \E v \in AmountInputs : SetAmount(v)
    \/ \E v \in AddressInputs : SetDestinationAddress(v)
    \/ ConnectWallet
    \/ ConnectRequestAccounts
    \/ ConnectGetAddress
    \/ ConnectGetNetwork
    \/ ConnectReturn
    \/ \E c \in WalletChains : UserSwitchesNetwork(c)
    \/ ChainChanged
    \/ \E disconnected \in BOOLEAN : AccountsChanged(disconnected)
    \/ PerformBridgeTransfer
    \/ \E a \in Attempts :
          \/ GetNetwork(a)
          \/ SwitchChain(a)
          \/ AddChain(a)
          \/ GetGasPrice(a)
          \/ GetAddress(a)
          \/ GetBalance(a)
          \/ GetCode(a)
          \/ Initialized(a)
          \/ Decimals(a)
          \/ BalanceOf(a)
          \/ Allowance(a)
          \/ Approve(a)
          \/ ApproveWait(a)
          \/ Transfer(a)
          \/ RetryDelay(a)
          \/ TransferWait(a)
          \/ Return(a)

Spec == Init /\ [][Next]_vars

---------------------------------------------------------------------------
(* retryOperation on its own: the behaviours of one attempt from the first
   invocation of the transfer on, with every awaited call settling and the
   2 s timer firing *)

\* the frame of an attempt at the first invocation of the transfer, after
\* the checks have been passed with the given reads
FrameAtSubmission(src, tgt, entered, allowance) ==
    LET f0 == [InitFrame EXCEPT
                 !.wallet = ConnectSigner, !.walletAddress = AccountAddress,
                 !.sourceChain = src, !.targetChain = tgt,
                 !.amount = "1", !.destinationAddress = entered,
                 !.address = AccountAddress, !.ethBalance = FEE,
                 !.amountWei = parseUnits("1", 1), !.cctBalance = 10,
                 !.currentAllowance = allowance]
        f1 == IF NeedsApproval(allowance, f0.amountWei)
                 THEN [Send(f0, "approve",
                            [spender |-> srcChainConfig(f0).nttManager,
                             amount |-> f0.amountWei])
                         EXCEPT !.last = Resolved("approveWait", 0)]
                 ELSE [f0 EXCEPT !.last = Resolved("allowance", allowance)]
        bytes32Recipient ==
              IF dstChainConfig(f0).isSolana
                 THEN prepareSolanaAddress(entered)
                 ELSE prepareRecipientAddress(RecipientAddress(entered, f0.address))
    IN  RetryOperation([f1 EXCEPT
                          !.bytes32Recipient = bytes32Recipient,
                          !.destinationWormholeChainId =
                             DestinationWormholeChainId(f0)],
                       TX_RETRY_COUNT)

\* the recipient step lets the entered address through
PassesRecipientStep(tgt, entered) ==
    IF SUPPORTED_CHAINS[tgt].isSolana
       THEN Trim(entered) # EmptyStr /\ ~InvalidSolanaAddress(entered)
       ELSE Trim(entered) = EmptyStr \/ IsAddress(entered)

\* the states of the component in which the first attempt since the page was
\* loaded has just invoked the transfer for the first time
RetryInit ==
    \E src \in SourceInputs \ {NoChain} :
    \E tgt \in TargetInputs \ {NoChain, src} :
    \E entered \in AddressInputs :
    \E allowance \in TokenReads :
        /\ PassesRecipientStep(tgt, entered)
        /\ sourceChain = src
        /\ targetChain = tgt
        /\ amount = "1"
        /\ destinationAddress = entered
        /\ wallet = ConnectSigner
        /\ walletAddress = AccountAddress
        /\ status = "transferring"
        /\ statusMessage = "transferring"
        /\ txHash = IF NeedsApproval(allowance, parseUnits("1", 1))
                       THEN ApproveHash(1) ELSE NoHash
        /\ cpc = "idle"
        /\ attempt = [a \in Attempts |->
                        IF a = 1
                           THEN FrameAtSubmission(src, tgt, entered, allowance)
                           ELSE InitFrame]
        /\ attemptNo = 1
        /\ walletChain = SUPPORTED_CHAINS[src].chainId
        /\ listeners = TRUE
        /\ chainChangedPending = FALSE

RetryNext ==
    \E a \in Attempts :
       \/ Transfer(a)
       \/ RetryDelay(a)
       \/ TransferWait(a)
       \/ Return(a)

\* every awaited call settles and the timer fires
RetrySpec ==
    /\ RetryInit
    /\ [][RetryNext]_vars
    /\ \A a \in Attempts :
          /\ WF_vars(Transfer(a))
          /\ WF_vars(RetryDelay(a))
          /\ WF_vars(TransferWait(a))
          /\ WF_vars(Return(a))

---------------------------------------------------------------------------
(* One attempt on its own: the behaviours of the first attempt since the page
   was loaded, from the click that starts it, with every awaited call
   settling; the wallet's events may arrive at any time *)

\* the states of the component in which the click on the transfer button has
\* just started the first attempt: the wallet was connected by connectWallet,
\* which finished normally or was cut short by a failing getAddress or
\* getNetwork
AttemptInit ==
    \E src \in SourceInputs \ {NoChain} :
    \E tgt \in TargetInputs \ {NoChain} :
    \E entered \in AddressInputs :
    \E connected \in {"connected", "getNetworkFailed", "getAddressFailed"} :
        /\ sourceChain = src
        /\ targetChain = tgt
        /\ amount = "1"
        /\ destinationAddress = entered
        /\ wallet = ConnectSigner
        /\ walletAddress =
              IF connected = "getAddressFailed" THEN EmptyStr ELSE AccountAddress
        /\ status = "preparing"
        /\ statusMessage = "preparing"
        /\ txHash = NoHash
        /\ cpc = "idle"
        /\ attempt = [a \in Attempts |->
                        IF a = 1
                           THEN Await([InitFrame EXCEPT
                                         !.wallet = wallet,
                                         !.walletAddress = walletAddress,
                                         !.sourceChain = src,
                                         !.targetChain = tgt,
                                         !.amount = "1",
                                         !.destinationAddress = entered],
                                      "getNetwork")
                           ELSE InitFrame]
        /\ attemptNo = 1
        /\ walletChain \in WalletChains
        /\ listeners = (connected = "connected")
        /\ chainChangedPending = FALSE

\* the handler of attempt a is resumed from the await it is suspended on, or
\* returns
AttemptStep(a) ==
    \/ GetNetwork(a)
    \/ SwitchChain(a)
    \/ AddChain(a)
    \/ GetGasPrice(a)
    \/ GetAddress(a)
    \/ GetBalance(a)
    \/ GetCode(a)
    \/ Initialized(a)
    \/ Decimals(a)
    \/ BalanceOf(a)
    \/ Allowance(a)
    \/ Approve(a)
    \/ ApproveWait(a)
    \/ Transfer(a)
    \/ RetryDelay(a)
    \/ TransferWait(a)
    \/ Return(a)

AttemptNext ==
    \/ \E c \in WalletChains : UserSwitchesNetwork(c)
    \/ ChainChanged
    \/ \E disconnected \in BOOLEAN : AccountsChanged(disconnected)
    \/ \E a \in Attempts : AttemptStep(a)

\* every awaited call settles, the retry timer fires and the handler runs on
\* to its return; nothing is assumed about the wallet's events
AttemptSpec ==
    /\ AttemptInit
    /\ [][AttemptNext]_vars
    /\ WF_vars(\E a \in Attempts : AttemptStep(a))

---------------------------------------------------------------------------
(* The earlier version of the component, src/unnamed/part_000: its network
   descriptors and its routing-identifier lookup *)

ChainNames_part_000 == {"Arbitrum Sepolia", "BSC Testnet"}

SUPPORTED_CHAINS_part_000 ==
    [n \in ChainNames_part_000 |->
       CASE n = "Arbitrum Sepolia" ->
              [chainId |-> 421614, wormholeChainId |-> 23, name |-> n]
         [] n = "BSC Testnet" ->
              [chainId |-> 97, wormholeChainId |-> 4, name |-> n]]

WormholeMapNames_part_000 == WormholeMapNames \ {"Sepolia"}

WORMHOLE_CHAIN_ID_MAP_part_000 ==
    [n \in WormholeMapNames_part_000 |-> WORMHOLE_CHAIN_ID_MAP[n]]

\* WORMHOLE_CHAIN_ID_MAP[dstChainConfig.name] || dstChainConfig.wormholeChainId
DestinationWormholeChainId_part_000(targetChain_) ==
    LET config == SUPPORTED_CHAINS_part_000[targetChain_]
    IN  IF /\ config.name \in WormholeMapNames_part_000
           /\ WORMHOLE_CHAIN_ID_MAP_part_000[config.name] # 0
           THEN WORMHOLE_CHAIN_ID_MAP_part_000[config.name]
           ELSE config.wormholeChainId

---------------------------------------------------------------------------
(* prepareRecipientAddress on its own: the function applied to addresses of
   40 hexadecimal digits in every mix of letter case, with and without the
   "0x" prefix *)

\* the digits the addresses are made of: numeric, lower case and upper case
PadDigits == {"0", "7", "c", "E", "e"}

\* 40 hexadecimal digits
PadBodies ==
    {Cycle(<< x, y, z >>, 40) : x \in PadDigits, y \in PadDigits, z \in PadDigits}

PadInputs == PadBodies \cup {<< "0", "x" >> \o b : b \in PadBodies}

\* the page with the wallet connected, no attempt made, and an address typed
\* into the destination-address field
PadInit ==
    /\ sourceChain = NoChain
    /\ targetChain = NoChain
    /\ amount = ""
    /\ destinationAddress \in PadInputs
    /\ wallet = ConnectSigner
    /\ walletAddress = AccountAddress
    /\ status = "idle"
    /\ statusMessage = ""
    /\ txHash = NoHash
    /\ cpc = "idle"
    /\ attempt = [a \in Attempts |-> InitFrame]
    /\ attemptNo = 0
    /\ walletChain \in WalletChains
    /\ listeners = TRUE
    /\ chainChangedPending = FALSE

\* bytes32Recipient = prepareRecipientAddress(recipientAddress), applied to
\* the entered address; the result is kept in the first frame
ApplyPrepareRecipientAddress ==
    /\ attempt[1].bytes32Recipient = EmptyStr
    /\ SetFrame(1, [attempt[1] EXCEPT
                      !.bytes32Recipient =
                         prepareRecipientAddress(destinationAddress)])
    /\ UNCHANGED << sourceChain, targetChain, amount, destinationAddress,
                    wallet, walletAddress, status, statusMessage, txHash,
                    cpc, attemptNo, walletChain, listeners,
                    chainChangedPending >>

PadNext == ApplyPrepareRecipientAddress

PadSpec == PadInit /\ [][PadNext]_vars

---------------------------------------------------------------------------
(* The guard of performBridgeTransfer on its own: the handler invoked in the
   states in which the page is at rest, also when an input is missing *)

\* status, message and hash as the page shows them before any attempt and
\* after the first attempt has returned
RestingOutcomes ==
    {[attemptNo |-> 0, status |-> "idle", statusMessage |-> "",
      txHash |-> NoHash],
     [attemptNo |-> 1, status |-> "error", statusMessage |-> "externalError",
      txHash |-> NoHash],
     [attemptNo |-> 1, status |-> "error", statusMessage |-> "externalError",
      txHash |-> ApproveHash(1)],
     [attemptNo |-> 1, status |-> "success", statusMessage |-> "success",
      txHash |-> TransferHash(1)]}

\* the page after connectWallet has finished, with no handler under way, the
\* form filled in or not, and the wallet still connected or disconnected by
\* an accountsChanged event
InvokeInit ==
    /\ sourceChain \in SourceInputs
    /\ targetChain \in TargetInputs
    /\ amount \in AmountInputs
    /\ destinationAddress \in AddressInputs
    /\ \/ wallet = ConnectSigner /\ walletAddress = AccountAddress
       \/ wallet = NoSigner /\ walletAddress = EmptyStr
    /\ \E o \in RestingOutcomes :
          /\ attemptNo = o.attemptNo
          /\ status = o.status
          /\ statusMessage = o.statusMessage
          /\ txHash = o.txHash
    /\ cpc = "idle"
    /\ attempt = [a \in Attempts |-> InitFrame]
    /\ walletChain \in WalletChains
    /\ listeners = TRUE
    /\ chainChangedPending = FALSE

\* the handler is invoked with an input missing, or by a click on the enabled
\* button
InvokeNext ==
    /\ MissingInput \/ ~isTransferDisabled
    /\ InvokePerformBridgeTransfer

InvokeSpec == InvokeInit /\ [][InvokeNext]_vars

---------------------------------------------------------------------------
(* Properties *)

\* the invocations whose frame is live
Running == {a \in Attempts : attempt[a].pc # "idle"}

\* the attempt has stopped and is about to return
Ended(f) == f.pc = "ended"

\* the transactions of one kind a frame has asked the wallet to send
Transfers(f) == SentOf(f, "transfer")
Approvals(f) == SentOf(f, "approve")

\* C1: an approve transaction is submitted only when the allowance read is
\* strictly below the requested amount; when the allowance is at least the
\* amount, the attempt sends no approve and its status is never "approving".
C1_ApproveOnlyBelowAllowance ==
    \A a \in Running :
        LET f == attempt[a]
        IN  /\ (Approvals(f) # << >> \/ status = "approving") =>
                  /\ f.currentAllowance # Unread
                  /\ f.currentAllowance < f.amountWei
            /\ (f.currentAllowance # Unread /\ f.currentAllowance >= f.amountWei) =>
                  /\ Approvals(f) = << >>
                  /\ status # "approving"
            /\ Len(Approvals(f)) <= 1

\* the allowance was short, the approve was sent and the status is "approving"
C1_Witness ==
    \E a \in Running :
        /\ attempt[a].pc = "approve"
        /\ attempt[a].currentAllowance < attempt[a].amountWei
        /\ Len(Approvals(attempt[a])) = 1
        /\ status = "approving"

\* C2: when the native balance read is below the fee of 0.005, the attempt
\* ends with status "error" and has sent neither an approve nor a transfer.
C2_LowNativeBalanceEndsInError ==
    \A a \in Running :
        LET f == attempt[a]
        IN  (f.ethBalance # Unread /\ f.ethBalance < FEE) =>
               /\ Ended(f)
               /\ status = "error"
               /\ f.sent = << >>

\* a balance below the fee has been read and the attempt has ended
C2_Witness ==
    \E a \in Running :
        /\ attempt[a].last = Resolved("getBalance", FEE - 1)
        /\ Ended(attempt[a])
        /\ status = "error"

\* the destination address as the claims classify it: not an EVM address for
\* an EVM destination, not a 32-44 character base58 string for Solana
InvalidForDestination(f) ==
    IF dstChainConfig(f).isSolana
       THEN ~(/\ Len(f.destinationAddress) >= 32
              /\ Len(f.destinationAddress) <= 44
              /\ AllIn(f.destinationAddress, Base58Chars))
       ELSE ~IsAddress(f.destinationAddress)

Rejected3(f) ==
    /\ Transfers(f) = << >>
    /\ Ended(f) => status = "error"
    /\ f.pc \notin {"transfer", "retryDelay", "transferWait"}

\* C3 (as stated): every attempt whose destination address is non-empty and
\* invalid for the destination type never invokes the transfer and ends with
\* status "error".
C3_NonEmptyInvalidAddressRejected ==
    \A a \in Running :
        LET f == attempt[a]
        IN  (f.destinationAddress # EmptyStr /\ InvalidForDestination(f)) =>
               Rejected3(f)

\* C3 (amended): every attempt whose destination address is non-blank after
\* trimming and invalid for the destination type never invokes the transfer
\* and, once past the allowance step, ends with status "error".
C3_NonBlankInvalidAddressRejected ==
    \A a \in Running :
        LET f == attempt[a]
        IN  (Trim(f.destinationAddress) # EmptyStr /\ InvalidForDestination(f)) =>
               Rejected3(f)

\* an invalid non-blank address has been rejected by the recipient step
C3_Witness ==
    \E a \in Running :
        LET f == attempt[a]
        IN  /\ Trim(f.destinationAddress) # EmptyStr
            /\ InvalidForDestination(f)
            /\ Ended(f)
            /\ f.last.op \in {"allowance", "approveWait"} /\ f.last.ok
            /\ status = "error"

\* C4: when the transfer fails on every invocation, retryOperation invokes it
\* exactly 1 + TX_RETRY_COUNT = 4 times and then propagates the error; it is
\* never invoked more often, and the error is not propagated earlier.
C4_RetryInvokesOnePlusRetries ==
    \A a \in Running :
        LET f == attempt[a]
        IN  /\ Len(Transfers(f)) <= 1 + TX_RETRY_COUNT
            /\ (Ended(f) /\ f.last = Rejected("transfer", 0)) =>
                  /\ Len(Transfers(f)) = 1 + TX_RETRY_COUNT
                  /\ Len(Transfers(f)) = 4
                  /\ status = "error"
            /\ (f.pc = "retryDelay") =>
                  /\ f.last = Rejected("transfer", 0)
                  /\ Len(Transfers(f)) = 1 + TX_RETRY_COUNT - f.retries
                  /\ f.retries > 0

\* the fourth invocation has failed and the error reached the caller's catch
C4_Witness ==
    \E a \in Running :
        /\ Ended(attempt[a])
        /\ attempt[a].last = Rejected("transfer", 0)
        /\ Len(Transfers(attempt[a])) = 4

\* C5: at most one invocation of performBridgeTransfer is live at any time,
\* and while one is under way the status is one of the four values that
\* disable the transfer button.
C5_AtMostOneInFlight ==
    /\ Cardinality(Running) <= 1
    /\ \A a \in Running :
          ~Ended(attempt[a]) =>
             /\ status \in InFlightStatuses
             /\ isTransferDisabled
             /\ a = attemptNo

\* a second attempt is under way after the first one has returned, with the
\* form filled in and the wallet connected
C5_Witness ==
    /\ attemptNo = 2
    /\ attempt[2].pc = "transfer"
    /\ FormRendered
    /\ sourceChain # NoChain /\ targetChain # NoChain /\ amount # ""

\* a step other than the transfer submission has failed: its call rejected,
\* or the contract-code check found no code, or initialized() returned false.
\* A switch request rejected with 4902 is followed by the add request inside
\* switchNetwork and is not a failure of the network step.
StepFailed(f) ==
    /\ f.last.op \notin {"none", "transfer"}
    /\ f.last # Rejected("switchChain", 4902)
    /\ \/ ~f.last.ok
       \/ f.last.op = "getCode" /\ f.last.value <= 2
       \/ f.last.op = "initialized" /\ f.last.value = 0

Terminal(f) ==
    /\ Ended(f)
    /\ status = "error"
    /\ f.last.op # "transferWait" => Transfers(f) = << >>

\* C6 (as stated): every failure of a step other than the transfer
\* submission, the initialized check included, ends the attempt with status
\* "error" and without a transfer submitted afterwards.
C6_EveryStepFailureTerminal ==
    \A a \in Running : StepFailed(attempt[a]) => Terminal(attempt[a])

\* C6 (amended): every failure of a step other than the transfer submission
\* and the initialized check ends the attempt with status "error" and without
\* a transfer submitted afterwards.
C6_StepFailureTerminalExceptInitialized ==
    \A a \in Running :
        (StepFailed(attempt[a]) /\ attempt[a].last.op # "initialized") =>
           Terminal(attempt[a])

\* the confirmation of the approval has failed and the attempt has ended
C6_Witness ==
    \E a \in Running :
        /\ attempt[a].last = Rejected("approveWait", 0)
        /\ Ended(attempt[a])
        /\ status = "error"

\* C7 (as stated): after every failure in connectWallet or
\* performBridgeTransfer the message is non-empty and the status panel is
\* rendered.
C7_FailureMessageVisible ==
    /\ cpc = "failed" => (statusMessage # "" /\ StatusPanelRendered)
    /\ \A a \in Running :
          (Ended(attempt[a]) /\ status = "error") =>
             (statusMessage # "" /\ StatusPanelRendered)

\* C8: the four form fields change only while the status is "idle", "error"
\* or "success", or when the page is reloaded and the component starts anew;
\* in every other status the inputs are disabled and the fields keep their
\* values.
C8_FieldsFrozenWhileBusy ==
    [][ /\ formFields' # formFields =>
              \/ status \in {"idle", "error", "success"}
              \/ /\ formFields' = << NoChain, NoChain, "", EmptyStr >>
                 /\ status' = "idle" /\ wallet' = NoSigner
        /\ status \notin {"idle", "error", "success"} => InputsDisabled
      ]_vars

\* the form is rendered and filled in while an attempt is under way
C8_Witness ==
    /\ status \in InFlightStatuses
    /\ FormRendered
    /\ InputsDisabled
    /\ formFields = << "Arbitrum Sepolia", "BSC Testnet", "1", EvmAddress >>
    /\ \E a \in Running : attempt[a].pc = "balanceOf"

\* C9 (as stated): whenever the attempt proceeds from the network step to the
\* gas-price read, the wallet's network at that moment is the source network.
C9_OnSourceNetworkAfterNetworkStep ==
    \A a \in Running :
        LET f == attempt[a]
        IN  f.pc = "getGasPrice" =>
               f.last.value = srcChainConfig(f).chainId

\* C10: every invocation of the transfer in one attempt carries the same
\* arguments: the amount that passed the balance and allowance checks, the
\* destination network's identifier, the recipient, the recipient again as
\* refund address, queue flag false, the instruction bytes, the fee 0.005 as
\* value and the gas limit 900000.
C10_TransferArgsFixed ==
    \A a \in Running :
        LET f == attempt[a]
        IN  \A i \in 1..Len(Transfers(f)) :
               LET args == Transfers(f)[i].args
               IN  /\ args = Transfers(f)[1].args
                   /\ args.amount = parseUnits(f.amount, 1)
                   /\ args.amount <= f.cctBalance
                   /\ \/ args.amount <= f.currentAllowance
                      \/ /\ Len(Approvals(f)) = 1
                         /\ Approvals(f)[1].args.amount = args.amount
                   /\ args.recipientChain =
                         WORMHOLE_CHAIN_ID_MAP[SUPPORTED_CHAINS[f.targetChain].name]
                   /\ args.recipient = f.bytes32Recipient
                   /\ args.recipient # EmptyStr
                   /\ args.refundAddress = args.recipient
                   /\ args.shouldQueue = FALSE
                   /\ args.transceiverInstructions = "0x01000100"
                   /\ args.value = 5
                   /\ args.gasLimit = 900000

\* the transfer has been retried once, to a recipient other than the sender
C10_Witness ==
    \E a \in Running :
        LET f == attempt[a]
        IN  /\ Len(Transfers(f)) = 2
            /\ f.destinationAddress = EvmAddress
            /\ f.pc = "transfer"


\* the status changes the pipeline allows within one attempt
PipelineEdges ==
    {<< "preparing", "approving" >>, << "preparing", "transferring" >>,
     << "approving", "transferring" >>, << "transferring", "confirming" >>,
     << "confirming", "success" >>}
    \cup {<< s, "error" >> : s \in InFlightStatuses}

\* the recipient step ends the attempt with a warning
WarningEdges == {<< "preparing", "warning" >>, << "approving", "warning" >>}

\* a step within attempt a: its handler is under way before the step and has
\* not been discarded by a page reload
WithinAttempt(a) ==
    /\ attempt[a].pc \notin {"idle", "ended"}
    /\ attempt'[a].pc # "idle"

\* the step in which attempt a submits the transfer for the first time
FirstSubmission(a) ==
    /\ Transfers(attempt[a]) = << >>
    /\ Transfers(attempt'[a]) # << >>

\* at the first submission every check of the attempt has been passed and the
\* recipient is prepared
ChecksPassedAtSubmission(a) ==
    LET f == attempt[a]
        g == attempt'[a]
    IN  /\ g.ethBalance >= FEE
        /\ g.cctBalance # Unread /\ g.cctBalance >= g.amountWei
        /\ g.currentAllowance # Unread
        /\ g.bytes32Recipient # EmptyStr
        /\ g.destinationWormholeChainId # Unread
        /\ IF Approvals(g) = << >>
              THEN f.pc = "allowance" /\ g.currentAllowance >= g.amountWei
              ELSE /\ f.pc = "approveWait"
                   /\ f.last = Resolved("approve", 0)
                   /\ g.last = Resolved("approveWait", 0)

\* an attempt starts in "preparing", and "approving" is entered only with an
\* allowance below the amount
PipelineEnds(a) ==
    /\ (attempt[a].pc = "idle" /\ attempt'[a].pc # "idle") =>
          status' = "preparing"
    /\ (WithinAttempt(a) /\ status # "approving" /\ status' = "approving") =>
          attempt'[a].currentAllowance < attempt'[a].amountWei

\* C11 (as stated): within an attempt the status moves only along preparing ->
\* (approving) -> transferring -> confirming -> success, or to "error", never
\* backwards; the transfer is first submitted only after the native-balance,
\* token-balance and allowance checks, the approval's confirmation when one
\* was sent, and the recipient preparation.
C11_PipelineOrder ==
    [][\A a \in Attempts :
          /\ PipelineEnds(a)
          /\ (WithinAttempt(a) /\ status' # status) =>
                << status, status' >> \in PipelineEdges
          /\ FirstSubmission(a) => ChecksPassedAtSubmission(a)
      ]_vars

\* C11 (amended): as C11, with one more way out of the pipeline: from
\* "preparing" or "approving" the recipient step may end the attempt with
\* status "warning".
C11_PipelineOrderWithWarning ==
    [][\A a \in Attempts :
          /\ PipelineEnds(a)
          /\ (WithinAttempt(a) /\ status' # status) =>
                << status, status' >> \in PipelineEdges \cup WarningEdges
          /\ FirstSubmission(a) => ChecksPassedAtSubmission(a)
      ]_vars

\* an attempt has gone through the whole pipeline, approval included
C11_Witness ==
    \E a \in Running :
        /\ Ended(attempt[a])
        /\ status = "success"
        /\ Len(Approvals(attempt[a])) = 1
        /\ Len(Transfers(attempt[a])) >= 1

\* C12: when the token balance read is below the requested amount (converted
\* with the token's decimals), the attempt ends with status "error" and has
\* sent neither an approve nor a transfer.
C12_LowTokenBalanceEndsInError ==
    \A a \in Running :
        LET f == attempt[a]
        IN  /\ f.cctBalance # Unread => f.amountWei = parseUnits(f.amount, 1)
            /\ (f.cctBalance # Unread /\ f.cctBalance < f.amountWei) =>
                  /\ Ended(f)
                  /\ status = "error"
                  /\ statusMessage = "tokenBalanceTooLow"
                  /\ f.sent = << >>

\* a token balance below the amount has been read and the attempt has ended
C12_Witness ==
    \E a \in Running :
        /\ attempt[a].last = Resolved("balanceOf", 0)
        /\ attempt[a].amountWei = 10
        /\ Ended(attempt[a])
        /\ status = "error"

\* C13: the status becomes "success" only in the step in which the receipt of
\* a submitted transfer arrives with status 1; any other receipt, or a failed
\* wait, ends the attempt with "error"; and the status is "confirming"
\* exactly while an attempt waits for the receipt of its transfer.
C13_SuccessOnlyAfterReceipt ==
    [][/\ (status' = "success" /\ status # "success") =>
             \E a \in Attempts :
                /\ attempt[a].pc = "transferWait"
                /\ attempt[a].last = Resolved("transfer", 0)
                /\ Transfers(attempt[a]) # << >>
                /\ attempt'[a].last = Resolved("transferWait", 1)
       /\ \A a \in Attempts :
             /\ attempt[a].pc = "transferWait" => status = "confirming"
             /\ (attempt[a].pc = "transfer" /\ attempt'[a].pc = "transferWait") =>
                   status' = "confirming"
             /\ (/\ attempt[a].pc = "transferWait"
                 /\ Ended(attempt'[a])
                 /\ attempt'[a].last # Resolved("transferWait", 1)) =>
                   status' = "error"
       /\ status = "confirming" =>
             \E a \in Attempts : attempt[a].pc = "transferWait"
      ]_vars

\* the receipt has arrived with status 1
C13_Witness ==
    \E a \in Running :
        /\ Ended(attempt[a])
        /\ attempt[a].last = Resolved("transferWait", 1)
        /\ status = "success"

\* connectWallet is suspended on one of its awaits
Connecting == cpc \in {"requestAccounts", "getAddress", "getNetwork"}

\* C14 (as stated): whenever connectWallet is not under way, and so after it
\* has finished, normally or through its catch, and after every
\* accountsChanged event, the signer is set if and only if the wallet address
\* is non-empty.
C14_SignerIffAddress ==
    ~Connecting => (wallet # NoSigner <=> walletAddress # EmptyStr)

\* C15 (as stated): when initialized() has returned false the attempt has
\* ended with status "error" and has sent neither an approve nor a transfer.
C15_UninitializedStops ==
    \A a \in Running :
        LET f == attempt[a]
        IN  f.last = Resolved("initialized", 0) =>
               /\ Ended(f)
               /\ status = "error"
               /\ f.sent = << >>

\* C17 (as stated): once an attempt has switched the network and re-acquired
\* the signer, every later call of that attempt, its reads and the
\* transactions it sends, goes through the re-acquired signer.
C17_CallsThroughReacquiredSigner ==
    \A a \in Running :
        LET f == attempt[a]
        IN  (wallet = SwitchSigner(a)
               /\ f.pc \notin {"getNetwork", "switchChain", "addChain"}) =>
               /\ CallSigner(f) = SwitchSigner(a)
               /\ \A i \in 1..Len(f.sent) : f.sent[i].via = SwitchSigner(a)

\* C18 (as stated): in both versions, for every supported destination network
\* the identifier passed to the transfer is the wormholeChainId of the
\* network's descriptor, and the name-keyed map never differs from it.
C18_RoutingIdMatchesDescriptor ==
    /\ \A n \in ChainNames :
          /\ DestinationWormholeChainId([targetChain |-> n]) =
                SUPPORTED_CHAINS[n].wormholeChainId
          /\ n \in WormholeMapNames =>
                WORMHOLE_CHAIN_ID_MAP[n] = SUPPORTED_CHAINS[n].wormholeChainId
    /\ \A n \in ChainNames_part_000 :
          /\ DestinationWormholeChainId_part_000(n) =
                SUPPORTED_CHAINS_part_000[n].wormholeChainId
          /\ n \in WormholeMapNames_part_000 =>
                WORMHOLE_CHAIN_ID_MAP_part_000[n] =
                   SUPPORTED_CHAINS_part_000[n].wormholeChainId
    /\ \A a \in Running :
          \A i \in 1..Len(Transfers(attempt[a])) :
             Transfers(attempt[a])[i].args.recipientChain =
                SUPPORTED_CHAINS[attempt[a].targetChain].wormholeChainId

\* "0x" followed by exactly 64 hexadecimal digits
WellFormedBytes32(s) ==
    /\ Len(s) = 66
    /\ HasPrefix0x(s)
    /\ \A i \in 3..66 : s[i] \in HexDigits

\* C19 (as stated): the recipient passed to every transfer is a well-formed
\* bytes32 value.
C19_RecipientWellFormed ==
    \A a \in Running :
        \A i \in 1..Len(Transfers(attempt[a])) :
           WellFormedBytes32(Transfers(attempt[a])[i].args.recipient)

\* the attempt has been ended by its recipient step
EndedAtRecipientStep(f) ==
    /\ Ended(f)
    /\ f.last \in {Resolved("allowance", f.currentAllowance),
                   Resolved("approveWait", 0)}

\* C20: with a destination address that is blank after trimming, a transfer to
\* an EVM destination goes to the connected wallet's address and a transfer
\* to Solana is not submitted (the attempt ends with status "warning"); with
\* a non-blank valid destination address the recipient is derived from the
\* entered address and not from the wallet address.
C20_DestinationAddressOptionalForEvm ==
    \A a \in Running :
        LET f == attempt[a]
            blank == Trim(f.destinationAddress) = EmptyStr
            solana == dstChainConfig(f).isSolana
            submitted == Transfers(f) # << >>
            recipient == Transfers(f)[1].args.recipient
        IN  /\ (blank /\ ~solana /\ submitted) =>
                  /\ f.address = AccountAddress
                  /\ recipient = prepareRecipientAddress(f.address)
            /\ (blank /\ solana) =>
                  /\ ~submitted
                  /\ f.pc \notin {"transfer", "retryDelay", "transferWait"}
                  /\ EndedAtRecipientStep(f) => status = "warning"
            /\ (~blank /\ ~InvalidForDestination(f) /\ submitted) =>
                  /\ recipient =
                        IF solana
                           THEN prepareSolanaAddress(f.destinationAddress)
                           ELSE prepareRecipientAddress(f.destinationAddress)
                  /\ recipient # prepareRecipientAddress(f.address)

\* a transfer to an EVM destination with a whitespace-only destination address
C20_Witness ==
    \E a \in Running :
        /\ attempt[a].destinationAddress = BlankAddress
        /\ ~dstChainConfig(attempt[a]).isSolana
        /\ attempt[a].pc = "transferWait"

\* retryOperation is under way in attempt a
InRetryOperation(a) == attempt[a].pc \in {"transfer", "retryDelay"}

\* C16: retryOperation terminates when every invocation settles; the transfer
\* is invoked again only after an invocation has failed, never after one has
\* succeeded, and never more than 1 + TX_RETRY_COUNT times in all.
C16_RetryTerminatesAtFirstSuccess ==
    /\ \A a \in Attempts : InRetryOperation(a) ~> ~InRetryOperation(a)
    /\ [](\A a \in Attempts :
            /\ Len(Transfers(attempt[a])) <= 1 + TX_RETRY_COUNT
            /\ InRetryOperation(a) =>
                  /\ attempt[a].retries \in 0..TX_RETRY_COUNT
                  /\ Len(Transfers(attempt[a])) =
                        1 + TX_RETRY_COUNT - attempt[a].retries)
    /\ [][\A a \in Attempts :
            /\ Len(Transfers(attempt'[a])) > Len(Transfers(attempt[a])) =>
                  /\ attempt[a].pc = "retryDelay"
                  /\ attempt[a].last = Rejected("transfer", 0)
                  /\ Len(Transfers(attempt'[a])) =
                        Len(Transfers(attempt[a])) + 1
            /\ (attempt[a].pc = "transfer" /\ attempt'[a].pc = "transferWait") =>
                  attempt'[a].last = Resolved("transfer", 0)
            /\ attempt[a].pc = "transferWait" => ~InRetryOperation(a)'
         ]_vars

\* the third invocation has succeeded
C16_Witness ==
    \E a \in Attempts :
        /\ attempt[a].pc = "transferWait"
        /\ attempt[a].last = Resolved("transfer", 0)
        /\ Len(Transfers(attempt[a])) = 3

\* no invocation of performBridgeTransfer is live: the last attempt, if any,
\* has returned
AtRest == Running = {}

\* C21 (as stated): in every state in which an attempt has ended and the form
\* is shown (status "success", "error" or "warning"), the form fields are
\* editable, so that after the Solana missing-address warning the user can
\* enter the address the message asks for.
C21_EditableAfterAttemptEnded ==
    (AtRest /\ FormRendered /\ status \in {"success", "error", "warning"}) =>
       ~InputsDisabled

\* attempt a has come back from the network switch it requested and is
\* suspended on the gas-price read that follows it
JustSwitched(a) ==
    /\ attempt[a].pc = "getGasPrice"
    /\ attempt[a].last.op \in {"switchChain", "addChain"}
    /\ attempt[a].last.ok

\* C22 (as stated): the network switch an attempt requests itself does not
\* discard the attempt: with the chainChanged listener registered, the step
\* in which the switch returns leaves no page reload to come that was not
\* already on its way, and the listener does not reload the page under an
\* attempt that has just switched.
C22_SwitchKeepsAttempt ==
    [][\A a \in Attempts :
          /\ (/\ attempt[a].pc \in {"switchChain", "addChain"}
              /\ JustSwitched(a)'
              /\ ~chainChangedPending) => ~chainChangedPending'
          /\ JustSwitched(a) => ~ChainChanged
      ]_vars

\* the attempt has read no balance and sent no transaction
NothingReadOrSent(f) ==
    /\ f.ethBalance = Unread
    /\ f.cctBalance = Unread
    /\ f.currentAllowance = Unread
    /\ f.sent = << >>

\* C23: switchNetwork requests adding the network only after the switch
\* request failed with code 4902; a switch failure with another code reaches
\* the caller with its own message, a failed add reaches it as the "cannot
\* add network" error, and in both cases the attempt ends with status "error"
\* having read no balance and sent no transaction.
C23_SwitchNetworkErrors ==
    \A a \in Running :
        LET f == attempt[a]
        IN  /\ f.pc = "addChain" => f.last = Rejected("switchChain", 4902)
            /\ (f.last.op = "switchChain" /\ ~f.last.ok /\ f.last.value # 4902) =>
                  /\ Ended(f)
                  /\ status = "error"
                  /\ statusMessage = "externalError"
                  /\ NothingReadOrSent(f)
            /\ f.last = Rejected("addChain", 0) =>
                  /\ Ended(f)
                  /\ status = "error"
                  /\ statusMessage = "cannotAddNetwork"
                  /\ NothingReadOrSent(f)

\* the add request that followed a 4902 has failed and the attempt has ended
C23_Witness ==
    \E a \in Running :
        /\ attempt[a].last = Rejected("addChain", 0)
        /\ Ended(attempt[a])
        /\ statusMessage = "cannotAddNetwork"

\* the attempt has ended because its recipient step rejected the destination
\* address: missing for Solana, or of an invalid format
AddressRejected(f) ==
    /\ EndedAtRecipientStep(f)
    /\ statusMessage \in {"solanaAddressRequired", "invalidSolanaAddress",
                          "invalidEthAddress"}

\* C24 (as stated): an attempt that ends because its destination address is
\* rejected has submitted no transaction, neither the transfer nor an approve.
C24_NoTransactionOnRejectedAddress ==
    \A a \in Running :
        AddressRejected(attempt[a]) => attempt[a].sent = << >>

\* C25 (as stated): whatever the order in which the user selects the two
\* networks, a transfer is submitted only by an attempt whose source and
\* destination networks differ.
C25_SourceDiffersFromTarget ==
    \A a \in Running :
        Transfers(attempt[a]) # << >> =>
           attempt[a].sourceChain # attempt[a].targetChain

\* C27: the recorded transaction hash belongs to the current attempt: it is
\* empty from the start of an attempt until the attempt records a hash, a
\* recorded hash is never one of an earlier attempt, and while the status is
\* "confirming" or "success" it is the hash of the current attempt's transfer
\* transaction, not that of its approve transaction.
C27_TxHashOfCurrentAttempt ==
    /\ status = "preparing" => txHash = NoHash
    /\ txHash # NoHash => txHash.n = attemptNo
    /\ status \in {"confirming", "success"} =>
          /\ attemptNo \in Attempts
          /\ txHash = TransferHash(attemptNo)
          /\ txHash # ApproveHash(attemptNo)
    /\ \A a \in Running :
          attempt[a].pc = "transferWait" =>
             /\ a = attemptNo
             /\ Transfers(attempt[a]) # << >>
             /\ txHash = TransferHash(a)

\* the second attempt waits for the receipt of its transfer, after its approve
\* hash had been recorded
C27_Witness ==
    /\ attemptNo = 2
    /\ status = "confirming"
    /\ txHash = TransferHash(2)
    /\ Len(Approvals(attempt[2])) = 1

\* C28 (as stated): the explorer link of a recorded transaction uses the
\* explorer of the network the transaction was submitted on; so, as long as
\* the link is rendered for the same recorded hash, its explorer does not
\* change, whatever the user selects after the attempt has ended.
C28_ExplorerLinkOfSubmissionNetwork ==
    [][(ExplorerLinkRendered /\ ExplorerLinkRendered' /\ txHash' = txHash) =>
          ExplorerLinkBase' = ExplorerLinkBase
      ]_vars

\* the value of a hexadecimal digit
HexValue(c) ==
    CASE c = "0" -> 0 [] c = "1" -> 1 [] c = "2" -> 2 [] c = "3" -> 3
      [] c = "4" -> 4 [] c = "5" -> 5 [] c = "6" -> 6 [] c = "7" -> 7
      [] c = "8" -> 8 [] c = "9" -> 9
      [] c \in {"a", "A"} -> 10 [] c \in {"b", "B"} -> 11
      [] c \in {"c", "C"} -> 12 [] c \in {"d", "D"} -> 13
      [] c \in {"e", "E"} -> 14 [] c \in {"f", "F"} -> 15

\* the 40 digits of an address, without its prefix
Last40(s) == SubSeq(s, Len(s) - 39, Len(s))

\* two addresses that differ at most in the prefix and the letter case
SameAddress(s, t) ==
    \A i \in 1..40 : HexValue(Last40(s)[i]) = HexValue(Last40(t)[i])

\* C30: for an address of 40 hexadecimal digits, with or without "0x" and in
\* any letter case, prepareRecipientAddress returns "0x", 24 zero digits and
\* the 40 digits in lower case; addresses that differ only in prefix or
\* letter case give the same result.
C30_LeftPadsLowerCase ==
    LET r == attempt[1].bytes32Recipient
    IN  r # EmptyStr =>
           /\ Len(r) = 66
           /\ r[1] = "0" /\ r[2] = "x"
           /\ \A i \in 3..26 : r[i] = "0"
           /\ \A i \in 1..40 :
                 /\ r[26 + i] \in Digits \cup LowerHex
                 /\ HexValue(r[26 + i]) = HexValue(Last40(destinationAddress)[i])
           /\ \A other \in PadInputs :
                 SameAddress(other, destinationAddress) =>
                    prepareRecipientAddress(other) = r

\* the function has been applied to a prefixed address with upper-case digits
C30_Witness ==
    /\ attempt[1].bytes32Recipient # EmptyStr
    /\ HasPrefix0x(destinationAddress)
    /\ \E i \in 3..Len(destinationAddress) : destinationAddress[i] \in UpperHex
    /\ \E i \in 3..Len(destinationAddress) : destinationAddress[i] \in LowerHex

\* C29: an invocation of performBridgeTransfer with the source network, the
\* destination network, the amount or the wallet handle missing (and with
\* them a network descriptor) suspends on no external call, sends nothing and
\* leaves status, transaction hash, wallet handle, wallet address and form
\* fields as they were; it sets the status message and nothing else.
C29_EarlyReturnFrame ==
    [][MissingInput =>
          /\ statusMessage' = "selectPrompt"
          /\ status' = status
          /\ txHash' = txHash
          /\ wallet' = wallet
          /\ walletAddress' = walletAddress
          /\ formFields' = formFields
          /\ attempt' = attempt
          /\ attemptNo' = attemptNo
          /\ Running' = {}
          /\ << cpc, walletChain, listeners, chainChangedPending >>' =
                << cpc, walletChain, listeners, chainChangedPending >>
      ]_vars

\* the handler has returned early, with no source network selected, on a
\* page that shows the success of an earlier attempt and its hash
C29_Witness ==
    /\ statusMessage = "selectPrompt"
    /\ sourceChain = NoChain
    /\ status = "success"
    /\ txHash = TransferHash(1)
    /\ Running = {}

\* the statuses an attempt ends with
FinalStatuses == {"success", "error", "warning"}

\* C26: when every awaited call settles, every attempt that has set the
\* status to "preparing" ends: the status does not stay at a value that
\* disables the transfer button, and an attempt that is about to return has
\* set the status to "success", "error" or "warning"; the status is one of
\* the four in-flight values only while an attempt is under way.
C26_AttemptEnds ==
    /\ (status \in InFlightStatuses) ~>
          (Running = {} /\ status \notin InFlightStatuses)
    /\ [](\A a \in Attempts :
            /\ Ended(attempt[a]) => status \in FinalStatuses
            /\ (attempt[a].pc \notin {"idle", "ended"}) =>
                  status \in InFlightStatuses)
    /\ [](status \in InFlightStatuses =>
            \E a \in Attempts : attempt[a].pc \notin {"idle", "ended"})
    /\ [][\A a \in Attempts :
            (Ended(attempt[a]) /\ attempt'[a].pc = "idle") =>
               (status' = status /\ status' \in FinalStatuses /\
                (FormRendered' /\ ~MissingInput' => ~isTransferDisabled'))
         ]_vars

\* the attempt has returned with an error after its approve was sent, and the
\* transfer button is enabled again
C26_Witness ==
    /\ attemptNo = 1
    /\ Running = {}
    /\ status = "error"
    /\ statusMessage = "externalError"
    /\ txHash = ApproveHash(1)
    /\ FormRendered /\ ~isTransferDisabled
====
